---- MODULE Spec2Model ----
(***************************************************************************)
(* Model of converter.py: the Lexer (regex scan of the text into tokens),  *)
(* the recursive-descent Parser (bindings, values, arrays, bar             *)
(* expressions, sort) with its two dictionaries, and main (tokenize,      *)
(* parse, print or report the error and exit).                             *)
(*                                                                         *)
(* Text is a sequence of one-character strings; a token's value is the     *)
(* sub-sequence of the text it matched.  Python lists are objects of a     *)
(* heap, so that two dictionary entries holding the same list object can   *)
(* be told from two entries holding equal lists.                           *)
(***************************************************************************)
EXTENDS Integers, Sequences, FiniteSets

VARIABLES
    text,       \* Lexer.text / main's content
    scan,       \* offset (0-based) where re.finditer looks for the next match
    line,       \* Lexer.line
    tokens,     \* Lexer.tokens, later Parser.tokens (the same list)
    lexst,      \* "scanning" | "returned" | "raised" : where tokenize() is
    pos,        \* Parser.pos
    constants,  \* Parser.constants : sequence of [key, val] in insertion order
    output,     \* Parser.output    : sequence of [key, val] in insertion order
    heap,       \* the list objects created so far: heap[i] is the content of list i
    stack,      \* the parser's call stack, innermost frame last
    ret,        \* the value the last returned production handed to its caller
    err,        \* the exception raised (NoErr when none)
    pc,         \* main: "tokenize" | "parse" | "print" | "done" | "exit"
    stdout,     \* what main printed to standard output (one entry per print call)
    stderr,     \* what main printed to standard error
    status      \* the process's exit status (-1 while running)

vars == <<text, scan, line, tokens, lexst, pos, constants, output, heap, stack,
          ret, err, pc, stdout, stderr, status>>

lexvars == <<scan, line, tokens, lexst>>
parsevars == <<pos, constants, output, heap, stack, ret>>
mainvars == <<pc, stdout, stderr, status>>

---------------------------------------------------------------------------
(* Characters *)

Digits == {"0", "1", "2", "3", "4", "5", "6", "7", "8", "9"}

Letters == {"a", "b", "c", "d", "e", "f", "g", "h", "i", "j", "k", "l", "m",
            "n", "o", "p", "q", "r", "s", "t", "u", "v", "w", "x", "y", "z",
            "A", "B", "C", "D", "E", "F", "G", "H", "I", "J", "K", "L", "M",
            "N", "O", "P", "Q", "R", "S", "T", "U", "V", "W", "X", "Y", "Z",
            "_"}

Spaces == {" ", "\t", "\n", "\r", "\f"}

NL == "\n"

\* the literal lexemes of the token table
LitArray == <<"a", "r", "r", "a", "y", "(">>
LitSort  == <<"s", "o", "r", "t", "(">>
LitIs    == <<"i", "s">>

---------------------------------------------------------------------------
(* Regular-expression matching at an offset.  Offsets are 0-based as in    *)
(* Python: the character at offset p is t[p + 1].  A matcher returns the   *)
(* end offset of the match, or -1 when the pattern does not match at p.    *)

RECURSIVE MatchWhile(_, _, _)
\* the end of the longest run of characters of S that starts at offset p
MatchWhile(t, p, S) ==
    IF p < Len(t) /\ t[p + 1] \in S THEN MatchWhile(t, p + 1, S) ELSE p

\* a literal: every character of lit, in order, from offset p
MatchLit(t, p, lit) ==
    IF p + Len(lit) <= Len(t) /\ SubSeq(t, p + 1, p + Len(lit)) = lit
    THEN p + Len(lit) ELSE -1

\* \d+(\.\d*)?|\.\d+
MatchNumber(t, p) ==
    IF p < Len(t) /\ t[p + 1] \in Digits
    THEN LET e1 == MatchWhile(t, p, Digits)
         IN  IF e1 < Len(t) /\ t[e1 + 1] = "."
             THEN MatchWhile(t, e1 + 1, Digits)
             ELSE e1
    ELSE IF p + 1 < Len(t) /\ t[p + 1] = "." /\ t[p + 2] \in Digits
         THEN MatchWhile(t, p + 1, Digits)
         ELSE -1

\* [_a-zA-Z][_a-zA-Z0-9]*
MatchName(t, p) ==
    IF p < Len(t) /\ t[p + 1] \in Letters
    THEN MatchWhile(t, p + 1, Letters \cup Digits)
    ELSE -1

\* #.*   (the dot matches every character but the newline)
MatchComment(t, p) ==
    LET RECURSIVE ToEol(_)
        ToEol(q) == IF q < Len(t) /\ t[q + 1] # NL THEN ToEol(q + 1) ELSE q
    IN  IF p < Len(t) /\ t[p + 1] = "#" THEN ToEol(p + 1) ELSE -1

\* \s+
MatchSpace(t, p) ==
    IF p < Len(t) /\ t[p + 1] \in Spaces THEN MatchWhile(t, p, Spaces) ELSE -1

\* .
MatchAny(t, p) ==
    IF p < Len(t) /\ t[p + 1] # NL THEN p + 1 ELSE -1

\* token_specs, in its order: the alternatives of tok_regex
token_specs ==
    << "NUMBER", "ARRAY_OPEN", "PAREN_CLOSE", "COMMA", "IS", "PIPE_OPEN",
       "PIPE_CLOSE", "PLUS", "MINUS", "MULTIPLY", "SORT", "NAME", "COMMENT",
       "WHITESPACE", "MISMATCH" >>

\* the pattern of one entry of token_specs, tried at offset p
MatchKind(kind, t, p) ==
    CASE kind = "NUMBER"      -> MatchNumber(t, p)
      [] kind = "ARRAY_OPEN"  -> MatchLit(t, p, LitArray)
      [] kind = "PAREN_CLOSE" -> MatchLit(t, p, <<")">>)
      [] kind = "COMMA"       -> MatchLit(t, p, <<",">>)
      [] kind = "IS"          -> MatchLit(t, p, LitIs)
      [] kind = "PIPE_OPEN"   -> MatchLit(t, p, <<"|">>)
      [] kind = "PIPE_CLOSE"  -> MatchLit(t, p, <<"|">>)
      [] kind = "PLUS"        -> MatchLit(t, p, <<"+">>)
      [] kind = "MINUS"       -> MatchLit(t, p, <<"-">>)
      [] kind = "MULTIPLY"    -> MatchLit(t, p, <<"*">>)
      [] kind = "SORT"        -> MatchLit(t, p, LitSort)
      [] kind = "NAME"        -> MatchName(t, p)
      [] kind = "COMMENT"     -> MatchComment(t, p)
      [] kind = "WHITESPACE"  -> MatchSpace(t, p)
      [] kind = "MISMATCH"    -> MatchAny(t, p)

RECURSIVE FirstMatch(_, _, _)
\* the first alternative of tok_regex, from the j-th on, that matches at p
\* (every offset below Len(t) has one: MISMATCH or WHITESPACE at the latest)
FirstMatch(t, p, j) ==
    LET e == MatchKind(token_specs[j], t, p)
    IN  IF e # -1 THEN [kind |-> token_specs[j], end |-> e]
        ELSE FirstMatch(t, p, j + 1)

\* the match of tok_regex at offset p: mo.lastgroup and mo.end()
MatchAt(t, p) == FirstMatch(t, p, 1)

\* value.count('\n')
RECURSIVE CountNL(_)
CountNL(s) ==
    IF s = <<>> THEN 0
    ELSE (IF Head(s) = NL THEN 1 ELSE 0) + CountNL(Tail(s))

\* self.text.rfind('\n', 0, start): the last newline before offset start, or -1
RECURSIVE RFindNL(_, _)
RFindNL(t, start) ==
    IF start = 0 THEN -1
    ELSE IF t[start] = NL THEN start - 1 ELSE RFindNL(t, start - 1)

Max(a, b) == IF a >= b THEN a ELSE b

\* ColumnOf counted from the start of the text, whatever the line
ColumnOf_text(t, start) == Max(start, 0) + 1

\* col = mo.start() - rfind - 1 ; col = max(col, 0) + 1
ColumnOf(t, start) == Max(start - RFindNL(t, start) - 1, 0) + 1

---------------------------------------------------------------------------
(* Tokens and errors *)

\* Token(type, value, line, col)
Token(type, value, ln, col) ==
    [type |-> type, value |-> value, line |-> ln, col |-> col]

\* current_token() returning None
NoTok == Token("", <<>>, 0, 0)

\* An exception: its class, which message it is, and what the message
\* interpolates.  line = 0 and col = 0 say that the message holds no position.
Err(type, msg, expected, found, name, ln, col) ==
    [type |-> type, msg |-> msg, expected |-> expected, found |-> found,
     name |-> name, line |-> ln, col |-> col]

NoErr == Err("none", "", "", "", <<>>, 0, 0)

---------------------------------------------------------------------------
(* Lexer.tokenize: one iteration of the loop over re.finditer *)

\* len([t for t in self.tokens if t.type == kind])
CountType(toks, kind) == Cardinality({i \in 1..Len(toks) : toks[i].type = kind})

\* PipeKind with the comparison made strict
PipeKind_strict(kind, toks) ==
    IF kind = "PIPE_OPEN" \/ kind = "PIPE_CLOSE"
    THEN IF CountType(toks, "PIPE_OPEN") < CountType(toks, "PIPE_CLOSE")
         THEN "PIPE_OPEN"
         ELSE "PIPE_CLOSE"
    ELSE kind

\* PipeKind by what stands before the bar: an opening one where a value is due
PipeKind_nested(kind, toks) ==
    IF kind = "PIPE_OPEN" \/ kind = "PIPE_CLOSE"
    THEN IF toks = <<>> \/ toks[Len(toks)].type \in
                {"IS", "PIPE_OPEN", "PLUS", "MINUS", "MULTIPLY", "COMMA",
                 "ARRAY_OPEN", "SORT"}
         THEN "PIPE_OPEN"
         ELSE "PIPE_CLOSE"
    ELSE kind

\* lines 64-70: a bar is an opening one unless more were opened than closed
PipeKind(kind, toks) ==
    IF kind = "PIPE_OPEN" \/ kind = "PIPE_CLOSE"
    THEN IF CountType(toks, "PIPE_OPEN") <= CountType(toks, "PIPE_CLOSE")
         THEN "PIPE_OPEN"
         ELSE "PIPE_CLOSE"
    ELSE kind

\* the lexer's state as a record, so that one step is an operator
LexState(sc, ln, toks, st, e) ==
    [scan |-> sc, line |-> ln, tokens |-> toks, lexst |-> st, err |-> e]

\* Lexer.__init__
LexInit == LexState(0, 1, <<>>, "scanning", NoErr)

\* LexStep that passes over a character no pattern recognizes
LexStep_skip(t, ls) ==
    IF ls.scan >= Len(t)
    THEN [ls EXCEPT !.lexst = "returned"]
    ELSE LET mo    == MatchAt(t, ls.scan)
             value == SubSeq(t, ls.scan + 1, mo.end)
             col   == ColumnOf(t, ls.scan)
         IN  IF mo.kind \in {"WHITESPACE", "COMMENT", "MISMATCH"}
             THEN [ls EXCEPT !.line = @ + CountNL(value), !.scan = mo.end]
             ELSE [ls EXCEPT
                     !.tokens = Append(@, Token(PipeKind(mo.kind, ls.tokens),
                                                value, ls.line, col)),
                     !.line = @ + CountNL(value),
                     !.scan = mo.end]

\* lines 49-75: the body of the loop for the match mo found at the scan position
LexMatch(t, ls, mo) ==
    LET value == SubSeq(t, ls.scan + 1, mo.end)
        col   == ColumnOf(t, ls.scan)
    IN  IF mo.kind = "WHITESPACE" \/ mo.kind = "COMMENT"
        THEN [ls EXCEPT !.line = @ + CountNL(value), !.scan = mo.end]
        ELSE IF mo.kind = "MISMATCH"
        THEN [ls EXCEPT !.lexst = "raised",
                        !.err = Err("SyntaxError", "unknown_char", "", "",
                                    value, ls.line, col)]
        ELSE [ls EXCEPT
                !.tokens = Append(@, Token(PipeKind(mo.kind, ls.tokens),
                                           value, ls.line, col)),
                !.line = @ + CountNL(value),
                !.scan = mo.end]

\* one iteration of `for mo in re.finditer(...)`, or the return after the last
LexStep(t, ls) ==
    IF ls.scan >= Len(t)
    THEN [ls EXCEPT !.lexst = "returned"]
    ELSE CHOOSE r \in {LexMatch(t, ls, mo) : mo \in {MatchAt(t, ls.scan)}} : TRUE

\* tokenize() run to its return or its raise (the state is taken as a value,
\* x, before the next iteration is computed from it)
RECURSIVE LexRun(_, _)
LexRun(t, ls) ==
    CHOOSE r \in { IF x.lexst # "scanning" THEN x ELSE LexRun(t, LexStep(t, x)) :
                     x \in {ls} } : TRUE

---------------------------------------------------------------------------
(* Values: int, float and list.  A float m * 10^-e is kept as its decimal   *)
(* digits m and its number e of fraction digits; a list is a reference to  *)
(* a heap object.                                                          *)

IntV(n)      == [t |-> "int",   v |-> n,  e |-> 0]
FloatV(m, k) == [t |-> "float", v |-> m,  e |-> k]
ListV(id)    == [t |-> "list",  v |-> id, e |-> 0]
NoVal        == [t |-> "none",  v |-> 0,  e |-> 0]

IsNum(x)  == x.t = "int" \/ x.t = "float"
IsList(x) == x.t = "list"

DigitVal(c) ==
    CASE c = "0" -> 0 [] c = "1" -> 1 [] c = "2" -> 2 [] c = "3" -> 3
      [] c = "4" -> 4 [] c = "5" -> 5 [] c = "6" -> 6 [] c = "7" -> 7
      [] c = "8" -> 8 [] c = "9" -> 9

RECURSIVE DigitsToInt(_)
DigitsToInt(s) ==
    IF s = <<>> THEN 0
    ELSE DigitsToInt(SubSeq(s, 1, Len(s) - 1)) * 10 + DigitVal(s[Len(s)])

RECURSIVE Pow10(_)
Pow10(k) == IF k <= 0 THEN 1 ELSE 10 * Pow10(k - 1)

\* lines 128-130: float(token.value) if it holds a '.', else int(token.value)
NumberValue(lexeme) ==
    IF \E i \in 1..Len(lexeme) : lexeme[i] = "."
    THEN LET i == CHOOSE j \in 1..Len(lexeme) : lexeme[j] = "."
             frac == SubSeq(lexeme, i + 1, Len(lexeme))
         IN  FloatV(DigitsToInt(SubSeq(lexeme, 1, i - 1) \o frac), Len(frac))
    ELSE IntV(DigitsToInt(lexeme))

\* the value of a number scaled to k fraction digits
Scaled(x, k) == x.v * Pow10(k - x.e)

NumAdd(l, r) ==
    IF l.t = "int" /\ r.t = "int" THEN IntV(l.v + r.v)
    ELSE LET k == Max(l.e, r.e) IN FloatV(Scaled(l, k) + Scaled(r, k), k)

\* NumSub that stops at zero
NumSub_floor(l, r) ==
    IF l.t = "int" /\ r.t = "int" THEN IntV(Max(l.v - r.v, 0))
    ELSE LET k == Max(l.e, r.e) IN FloatV(Scaled(l, k) - Scaled(r, k), k)

NumSub(l, r) ==
    IF l.t = "int" /\ r.t = "int" THEN IntV(l.v - r.v)
    ELSE LET k == Max(l.e, r.e) IN FloatV(Scaled(l, k) - Scaled(r, k), k)

NumMul(l, r) ==
    IF l.t = "int" /\ r.t = "int" THEN IntV(l.v * r.v)
    ELSE FloatV(l.v * r.v, l.e + r.e)

NumLt(l, r) == LET k == Max(l.e, r.e) IN Scaled(l, k) < Scaled(r, k)
NumEq(l, r) == LET k == Max(l.e, r.e) IN Scaled(l, k) = Scaled(r, k)

\* the outcome of an evaluation: a value and the heap after it, or a failure
Ok(val, h) == [ok |-> TRUE,  val |-> val,   heap |-> h]
Fail(h)    == [ok |-> FALSE, val |-> NoVal, heap |-> h]

\* a new list object holding content
NewList(h, content) == Ok(ListV(Len(h) + 1), Append(h, content))

RECURSIVE Repeat(_, _)
\* list * n
Repeat(s, n) == IF n <= 0 THEN <<>> ELSE s \o Repeat(s, n - 1)

\* Python's left + right
PyAdd(l, r, h) ==
    IF IsNum(l) /\ IsNum(r) THEN Ok(NumAdd(l, r), h)
    ELSE IF IsList(l) /\ IsList(r) THEN NewList(h, h[l.v] \o h[r.v])
    ELSE Fail(h)

\* Python's left - right
PySub(l, r, h) ==
    IF IsNum(l) /\ IsNum(r) THEN Ok(NumSub(l, r), h) ELSE Fail(h)

\* Python's left * right
PyMul(l, r, h) ==
    IF IsNum(l) /\ IsNum(r) THEN Ok(NumMul(l, r), h)
    ELSE IF IsList(l) /\ r.t = "int" THEN NewList(h, Repeat(h[l.v], r.v))
    ELSE IF l.t = "int" /\ IsList(r) THEN NewList(h, Repeat(h[r.v], l.v))
    ELSE Fail(h)

\* lines 193-198
BinOp(op, l, r, h) ==
    CASE op = "PLUS"     -> PyAdd(l, r, h)
      [] op = "MINUS"    -> PySub(l, r, h)
      [] op = "MULTIPLY" -> PyMul(l, r, h)

RECURSIVE ValEq(_, _, _)
\* Python's x == y
ValEq(x, y, h) ==
    IF IsNum(x) /\ IsNum(y) THEN NumEq(x, y)
    ELSE IF IsList(x) /\ IsList(y)
    THEN \/ x.v = y.v
         \/ /\ Len(h[x.v]) = Len(h[y.v])
            /\ \A i \in 1..Len(h[x.v]) : ValEq(h[x.v][i], h[y.v][i], h)
    ELSE FALSE

RECURSIVE ValLt(_, _, _)
\* Python's x < y: "T", "F", or "E" when it raises TypeError
ValLt(x, y, h) ==
    IF IsNum(x) /\ IsNum(y) THEN (IF NumLt(x, y) THEN "T" ELSE "F")
    ELSE IF IsList(x) /\ IsList(y)
    THEN LET a == h[x.v]
             b == h[y.v]
             n == IF Len(a) < Len(b) THEN Len(a) ELSE Len(b)
             D == {i \in 1..n : ~ValEq(a[i], b[i], h)}
         IN  IF D = {} THEN (IF Len(a) < Len(b) THEN "T" ELSE "F")
             ELSE LET i == CHOOSE j \in D : \A k \in D : j <= k
                  IN  ValLt(a[i], b[i], h)
    ELSE "E"

RECURSIVE InsertSorted(_, _, _)
\* x put into the ordered sequence acc after every element not greater
InsertSorted(acc, x, h) ==
    IF acc = <<>> THEN [ok |-> TRUE, seq |-> <<x>>]
    ELSE LET last == acc[Len(acc)]
             c    == ValLt(x, last, h)
         IN  IF c = "E" THEN [ok |-> FALSE, seq |-> <<>>]
             ELSE IF c = "F" THEN [ok |-> TRUE, seq |-> Append(acc, x)]
             ELSE LET r == InsertSorted(SubSeq(acc, 1, Len(acc) - 1), x, h)
                  IN  IF r.ok THEN [ok |-> TRUE, seq |-> Append(r.seq, last)]
                      ELSE r

RECURSIVE SortInto(_, _, _)
\* the elements of s, inserted in order into acc
SortInto(s, h, acc) ==
    IF s = <<>> THEN acc
    ELSE IF ~acc.ok THEN acc
    ELSE SortInto(Tail(s), h, InsertSorted(acc.seq, Head(s), h))

\* Sorted as arg.sort() would do: the list itself is ordered and returned
Sorted_inplace(arg, h) ==
    LET r == SortInto(h[arg.v], h, [ok |-> TRUE, seq |-> <<>>])
    IN  IF r.ok THEN Ok(arg, [h EXCEPT ![arg.v] = r.seq]) ELSE Fail(h)

\* sorted(arg): a new list, stable, ascending; TypeError when two elements
\* do not compare
Sorted(arg, h) ==
    LET r == SortInto(h[arg.v], h, [ok |-> TRUE, seq |-> <<>>])
    IN  IF r.ok THEN NewList(h, r.seq) ELSE Fail(h)

---------------------------------------------------------------------------
(* Dictionaries, insertion-ordered: sequences of [key, val] *)

Has(d, k) == \E i \in 1..Len(d) : d[i].key = k

Get(d, k) == d[CHOOSE i \in 1..Len(d) : d[i].key = k].val

\* d[k] = v
Put(d, k, v) ==
    IF Has(d, k)
    THEN [i \in 1..Len(d) |-> IF d[i].key = k THEN [key |-> k, val |-> v] ELSE d[i]]
    ELSE Append(d, [key |-> k, val |-> v])

Keys(d) == {d[i].key : i \in 1..Len(d)}

---------------------------------------------------------------------------
(* The parser.  A production that calls another one waits in a frame of    *)
(* the stack; fpc names the place it resumes at.  `return self.f()` hands  *)
(* its frame over to f.                                                    *)

Frame(fn, fpc, tok, val) == [fn |-> fn, fpc |-> fpc, tok |-> tok, val |-> val]

\* the parser's state as a record, so that one step is an operator
P == [pos |-> pos, constants |-> constants, output |-> output, heap |-> heap,
      stack |-> stack, ret |-> ret, err |-> err]

Top(ps)        == ps.stack[Len(ps.stack)]
SetTop(ps, f)  == [ps EXCEPT !.stack[Len(ps.stack)] = f]
Call(ps, fn)   == [ps EXCEPT !.stack = Append(@, Frame(fn, "start", NoTok, NoVal))]
TailCall(ps, fn) == SetTop(ps, Frame(fn, "start", NoTok, NoVal))
Return(ps, v)  == [ps EXCEPT !.stack = SubSeq(@, 1, Len(@) - 1), !.ret = v]
Raise(ps, e)   == [ps EXCEPT !.stack = <<>>, !.err = e]
Failed(ps)     == ps.err # NoErr

\* the kind of the i-th token, EOF past the last one
TypeAt(toks, i) == IF i >= 1 /\ i <= Len(toks) THEN toks[i].type ELSE "EOF"

\* lines 88-91
HasTok(ps) == ps.pos < Len(tokens)
current_token(ps) == IF ps.pos < Len(tokens) THEN tokens[ps.pos + 1] ELSE NoTok

\* lines 93-101
eat(ps, token_type) ==
    LET token == current_token(ps)
    IN  IF HasTok(ps) /\ token.type = token_type
        THEN [ps EXCEPT !.pos = @ + 1]
        ELSE IF HasTok(ps)
        THEN Raise(ps, Err("SyntaxError", "expected", token_type, token.type,
                           <<>>, token.line, token.col))
        ELSE Raise(ps, Err("SyntaxError", "expected", token_type, "EOF",
                           <<>>, 0, 0))

\* parse_loop that goes round again on a token that is no NAME
parse_loop_continue(ps) ==
    IF ~HasTok(ps)
    THEN [ps EXCEPT !.stack = <<>>]
    ELSE IF current_token(ps).type = "NAME"
    THEN LET name_token == current_token(ps)
             p1 == eat(ps, "NAME")
         IN  IF HasTok(p1) /\ current_token(p1).type = "IS"
             THEN Call(SetTop(eat(p1, "IS"),
                              Frame("parse", "bind", name_token, NoVal)),
                       "parse_value")
             ELSE Raise(p1, Err("SyntaxError", "expected_is", "IS", "", <<>>,
                                name_token.line, name_token.col))
    ELSE ps

\* lines 104-108 and 114-119: the head of one iteration of parse's loop
parse_loop(ps) ==
    IF ~HasTok(ps)
    THEN [ps EXCEPT !.stack = <<>>]
    ELSE IF current_token(ps).type = "NAME"
    THEN LET name_token == current_token(ps)
             p1 == eat(ps, "NAME")
         IN  IF HasTok(p1) /\ current_token(p1).type = "IS"
             THEN Call(SetTop(eat(p1, "IS"),
                              Frame("parse", "bind", name_token, NoVal)),
                       "parse_value")
             ELSE Raise(p1, Err("SyntaxError", "expected_is", "IS", "", <<>>,
                                name_token.line, name_token.col))
    ELSE LET token == current_token(ps)
         IN  Raise(ps, Err("SyntaxError", "unexpected_token", "", token.type,
                           <<>>, token.line, token.col))

\* BindConstant that caches numbers only
BindConstant_numbers(cs, out, name, value) ==
    IF ~Has(out, name) /\ IsNum(value) THEN Put(cs, name, value) ELSE cs

\* BindConstant with the test of line 111 left out: every declaration is cached
BindConstant_always(cs, out, name, value) == Put(cs, name, value)

\* lines 111-112: the constants after `name is value`
BindConstant(cs, out, name, value) ==
    IF ~Has(out, name) THEN Put(cs, name, value) ELSE cs

\* BindOutput that drops the old entry and appends the new one
BindOutput_moved(out, name, value) ==
    Append(SelectSeq(out, LAMBDA en : en.key # name), [key |-> name, val |-> value])

\* line 113: the output after `name is value`
BindOutput(out, name, value) == Put(out, name, value)

\* lines 109-113: parse_value has returned
parse_bind(ps) ==
    LET name  == Top(ps).tok.value
        value == ps.ret
    IN  [SetTop(ps, Frame("parse", "loop", NoTok, NoVal)) EXCEPT
            !.constants = BindConstant(ps.constants, ps.output, name, value),
            !.output    = BindOutput(ps.output, name, value)]

\* LookupName with a default in place of the failure
LookupName_default(cs, out, name) ==
    IF Has(cs, name) THEN Get(cs, name)
    ELSE IF Has(out, name) THEN Get(out, name)
    ELSE IntV(0)

\* lines 137-140: what a NAME in a value position evaluates to (the object
\* stored, not a copy of it); NoVal when the name is in neither dictionary
LookupName(cs, out, name) ==
    IF Has(cs, name) THEN Get(cs, name)
    ELSE IF Has(out, name) THEN Get(out, name)
    ELSE NoVal

\* lines 121-144
parse_value(ps) ==
    LET token == current_token(ps)
    IN  IF ~HasTok(ps)
        THEN Raise(ps, Err("SyntaxError", "value_eof", "", "EOF", <<>>, 0, 0))
        ELSE IF token.type = "NUMBER"
        THEN Return(eat(ps, "NUMBER"), NumberValue(token.value))
        ELSE IF token.type = "ARRAY_OPEN"
        THEN TailCall(ps, "parse_array")
        ELSE IF token.type = "PIPE_OPEN"
        THEN TailCall(ps, "parse_constant_expr")
        ELSE IF token.type = "NAME"
        THEN LET p1 == eat(ps, "NAME")
                 v  == LookupName(ps.constants, ps.output, token.value)
             IN  IF v # NoVal THEN Return(p1, v)
                 ELSE Raise(p1, Err("NameError", "undefined", "", "",
                                    token.value, token.line, token.col))
        ELSE Raise(ps, Err("SyntaxError", "bad_value", "", token.type, <<>>,
                           token.line, token.col))

\* lines 147-154: up to the first element
parse_array_start(ps) ==
    LET p1 == eat(ps, "ARRAY_OPEN")
        a  == NewList(p1.heap, <<>>)
        p2 == [p1 EXCEPT !.heap = a.heap]
    IN  IF Failed(p1) THEN p1
        ELSE IF HasTok(p2) /\ current_token(p2).type = "PAREN_CLOSE"
        THEN Return(eat(p2, "PAREN_CLOSE"), a.val)
        ELSE Call(SetTop(p2, Frame("parse_array", "elem", NoTok, a.val)),
                  "parse_value")

\* parse_array_elem that lets a comma stand before the closing marker
parse_array_elem_trailing(ps) ==
    LET arr == Top(ps).val
        p1  == [ps EXCEPT !.heap[arr.v] = Append(@, ps.ret)]
    IN  IF HasTok(p1) /\ current_token(p1).type = "COMMA"
        THEN IF TypeAt(tokens, p1.pos + 2) = "PAREN_CLOSE"
             THEN Return(eat(eat(p1, "COMMA"), "PAREN_CLOSE"), arr)
             ELSE Call(eat(p1, "COMMA"), "parse_value")
        ELSE LET p2 == eat(p1, "PAREN_CLOSE")
             IN  IF Failed(p2) THEN p2 ELSE Return(p2, arr)

\* parse_array_elem that puts the element at the head of the list
parse_array_elem_prepend(ps) ==
    LET arr == Top(ps).val
        p1  == [ps EXCEPT !.heap[arr.v] = <<ps.ret>> \o @]
    IN  IF HasTok(p1) /\ current_token(p1).type = "COMMA"
        THEN Call(eat(p1, "COMMA"), "parse_value")
        ELSE LET p2 == eat(p1, "PAREN_CLOSE")
             IN  IF Failed(p2) THEN p2 ELSE Return(p2, arr)

\* lines 154-161: an element has been parsed
parse_array_elem(ps) ==
    LET arr == Top(ps).val
        p1  == [ps EXCEPT !.heap[arr.v] = Append(@, ps.ret)]
    IN  IF HasTok(p1) /\ current_token(p1).type = "COMMA"
        THEN Call(eat(p1, "COMMA"), "parse_value")
        ELSE LET p2 == eat(p1, "PAREN_CLOSE")
             IN  IF Failed(p2) THEN p2 ELSE Return(p2, arr)

\* lines 169 and 180: the message names neither a token kind nor a position
Unfinished == Err("SyntaxError", "unfinished_expr", "", "", <<>>, 0, 0)

\* lines 164-176: up to the left operand
parse_constant_expr_start(ps) ==
    LET p1 == eat(ps, "PIPE_OPEN")
    IN  IF Failed(p1) THEN p1
        ELSE IF ~HasTok(p1) THEN Raise(p1, Unfinished)
        ELSE IF current_token(p1).type = "SORT"
        THEN TailCall(p1, "parse_sort_function")
        ELSE Call(SetTop(p1, Frame("parse_constant_expr", "left", NoTok, NoVal)),
                  "parse_value")

\* lines 176-190 and 199-200: the left operand has been parsed
parse_constant_expr_left(ps) ==
    LET left  == ps.ret
        token == current_token(ps)
    IN  IF ~HasTok(ps) THEN Raise(ps, Unfinished)
        ELSE IF token.type = "PIPE_CLOSE"
        THEN LET p1 == eat(ps, "PIPE_CLOSE") IN Return(p1, left)
        ELSE IF token.type \in {"PLUS", "MINUS", "MULTIPLY"}
        THEN Call(SetTop(eat(ps, token.type),
                         Frame("parse_constant_expr", "right", token, left)),
                  "parse_value")
        ELSE Raise(ps, Err("SyntaxError", "unknown_operator", "", token.type,
                           <<>>, token.line, token.col))

\* parse_constant_expr_right that goes on to a further operator and operand
parse_constant_expr_right_chain(ps) ==
    LET right == ps.ret
        token == current_token(ps)
        p1    == eat(ps, "PIPE_CLOSE")
        r     == BinOp(Top(ps).tok.type, Top(ps).val, right, ps.heap)
    IN  IF HasTok(ps) /\ token.type \in {"PLUS", "MINUS", "MULTIPLY"} /\ r.ok
        THEN Call(SetTop([eat(ps, token.type) EXCEPT !.heap = r.heap],
                         Frame("parse_constant_expr", "right", token, r.val)),
                  "parse_value")
        ELSE IF Failed(p1) THEN p1
        ELSE IF r.ok THEN Return([p1 EXCEPT !.heap = r.heap], r.val)
        ELSE Raise(p1, Err("TypeError", "operand", "", "", <<>>, 0, 0))

\* lines 190-198: the right operand has been parsed
parse_constant_expr_right(ps) ==
    LET right == ps.ret
        p1    == eat(ps, "PIPE_CLOSE")
        r     == BinOp(Top(ps).tok.type, Top(ps).val, right, p1.heap)
    IN  IF Failed(p1) THEN p1
        ELSE IF r.ok THEN Return([p1 EXCEPT !.heap = r.heap], r.val)
        ELSE Raise(p1, Err("TypeError", "operand", "", "", <<>>, 0, 0))

\* lines 204-207
parse_sort_function_start(ps) ==
    LET p1 == eat(ps, "SORT")
    IN  IF Failed(p1) THEN p1
        ELSE Call(SetTop(p1, Frame("parse_sort_function", "arg", NoTok, NoVal)),
                  "parse_value")

\* parse_sort_function_arg with the type test moved after the closing bar
parse_sort_function_arg_late(ps) ==
    LET arg == ps.ret
        p1  == eat(ps, "PAREN_CLOSE")
        p2  == eat(p1, "PIPE_CLOSE")
        r   == Sorted(arg, p2.heap)
    IN  IF Failed(p1) THEN p1
        ELSE IF Failed(p2) THEN p2
        ELSE IF ~IsList(arg)
        THEN Raise(p2, Err("TypeError", "sort_expects_list", "list", arg.t,
                           <<>>, 0, 0))
        ELSE IF r.ok THEN Return([p2 EXCEPT !.heap = r.heap], r.val)
        ELSE Raise(p2, Err("TypeError", "not_comparable", "", "", <<>>, 0, 0))

\* lines 207-217: the argument has been parsed
parse_sort_function_arg(ps) ==
    LET arg == ps.ret
        p1  == eat(ps, "PAREN_CLOSE")
        p2  == eat(p1, "PIPE_CLOSE")
        r   == Sorted(arg, p2.heap)
    IN  IF Failed(p1) THEN p1
        ELSE IF ~IsList(arg)
        THEN Raise(p1, Err("TypeError", "sort_expects_list", "list", arg.t,
                           <<>>, 0, 0))
        ELSE IF Failed(p2) THEN p2
        ELSE IF r.ok THEN Return([p2 EXCEPT !.heap = r.heap], r.val)
        ELSE Raise(p2, Err("TypeError", "not_comparable", "", "", <<>>, 0, 0))

---------------------------------------------------------------------------
(* dict_to_yaml: text as a sequence of characters *)

DigitChar(d) ==
    CASE d = 0 -> "0" [] d = 1 -> "1" [] d = 2 -> "2" [] d = 3 -> "3"
      [] d = 4 -> "4" [] d = 5 -> "5" [] d = 6 -> "6" [] d = 7 -> "7"
      [] d = 8 -> "8" [] d = 9 -> "9"

RECURSIVE NatStr(_)
NatStr(n) ==
    IF n < 10 THEN <<DigitChar(n)>>
    ELSE NatStr(n \div 10) \o <<DigitChar(n % 10)>>

\* str(n) of an int
IntStr(n) == IF n < 0 THEN <<"-">> \o NatStr(-n) ELSE NatStr(n)

RECURSIVE PadStr(_, _)
\* the k fraction digits of f, with its leading zeros
PadStr(f, k) ==
    IF k <= 0 THEN <<>> ELSE PadStr(f \div 10, k - 1) \o <<DigitChar(f % 10)>>

RECURSIVE FloatStr(_, _)
\* str(x) of the float m * 10^-k (positional notation: the magnitudes the
\* documents below produce)
FloatStr(m, k) ==
    IF k > 1 /\ m % 10 = 0 THEN FloatStr(m \div 10, k - 1)
    ELSE IF k = 0 THEN IntStr(m) \o <<".", "0">>
    ELSE LET a == IF m < 0 THEN -m ELSE m
         IN  (IF m < 0 THEN <<"-">> ELSE <<>>)
             \o NatStr(a \div Pow10(k)) \o <<".">> \o PadStr(a % Pow10(k), k)

RECURSIVE ValueStr(_, _)
RECURSIVE ItemsStr(_, _)
\* the elements of a list joined by ", "
ItemsStr(s, h) ==
    IF s = <<>> THEN <<>>
    ELSE IF Len(s) = 1 THEN ValueStr(s[1], h)
    ELSE ValueStr(s[1], h) \o <<",", " ">> \o ItemsStr(Tail(s), h)

\* f"{value}"
ValueStr(x, h) ==
    IF x.t = "int" THEN IntStr(x.v)
    ELSE IF x.t = "float" THEN FloatStr(x.v, x.e)
    ELSE <<"[">> \o ItemsStr(h[x.v], h) \o <<"]">>

RECURSIVE JoinLines(_)
\* "\n".join(yaml_lines)
JoinLines(ls) ==
    IF ls = <<>> THEN <<>>
    ELSE IF Len(ls) = 1 THEN ls[1]
    ELSE ls[1] \o <<NL>> \o JoinLines(Tail(ls))

\* lines 223-236: the lines of one entry (no value is a dict)
EntryLines(key, value, h) ==
    IF IsList(value)
    THEN <<key \o <<":">>>> \o
         [i \in 1..Len(h[value.v]) |->
             <<" ", " ", "-", " ">> \o ValueStr(h[value.v][i], h)]
    ELSE <<key \o <<":", " ">> \o ValueStr(value, h)>>

RECURSIVE YamlLines(_, _)
YamlLines(data, h) ==
    IF data = <<>> THEN <<>>
    ELSE EntryLines(data[1].key, data[1].val, h) \o YamlLines(Tail(data), h)

\* lines 221-237, with indent = 0
dict_to_yaml(data, h) == JoinLines(YamlLines(data, h))

---------------------------------------------------------------------------
(* The documents checked *)

MaxBindings == 3    \* bindings of a document
MaxPrefix == 1      \* bindings before a document's last line
MaxChunks == 4      \* pieces of a text given to the lexer alone

RECURSIVE Cat(_)
\* the pieces of ss, one after the other
Cat(ss) == IF ss = <<>> THEN <<>> ELSE Head(ss) \o Cat(Tail(ss))

SP == <<" ">>

\* array(x,y,...)
ArrayText(elems) ==
    LET RECURSIVE Commas(_)
        Commas(es) == IF Len(es) <= 1 THEN Cat(es)
                      ELSE Head(es) \o <<",">> \o Commas(Tail(es))
    IN  LitArray \o Commas(elems) \o <<")">>

\* |l op r|
OpText(l, op, r) == <<"|">> \o l \o SP \o <<op>> \o SP \o r \o <<"|">>

\* |sort(x)|
SortText(x) == <<"|">> \o LitSort \o x \o <<")", "|">>

\* n is v
BindingText(n, v) == n \o SP \o LitIs \o SP \o v

A == <<"a">>
B == <<"b">>

\* the bindings that documents are made of
CoreLines ==
    { BindingText(A, <<"1">>),                                \* a is 1
      BindingText(A, ArrayText(<< <<"2">>, <<"1">> >>)),      \* a is array(2,1)
      BindingText(A, A),                                      \* a is a
      BindingText(A, B),                                      \* a is b
      BindingText(B, A),                                      \* b is a
      BindingText(B, <<"|">> \o A \o <<"|">>),                \* b is |a|
      BindingText(B, ArrayText(<<A, <<"1">> >>)),             \* b is array(a,1)
      BindingText(B, SortText(A)),                            \* b is |sort(a)|
      BindingText(B, OpText(A, "+", A)),                      \* b is |a + a|
      BindingText(B, OpText(<<"2">>, "*", A)) }               \* b is |2 * a|

\* further bindings, each the last line of its document
LastLines ==
    { BindingText(A, <<"2", ".", "5">>),                      \* a is 2.5
      BindingText(A, ArrayText(<<>>)),                        \* a is array()
      BindingText(B, ArrayText(<< ArrayText(<<A>>) >>)),      \* b is array(array(a))
      BindingText(B, OpText(A, "+", <<"1">>)),                \* b is |a + 1|
      BindingText(B, OpText(A, "-", <<"2">>)),                \* b is |a - 2|
      BindingText(B, OpText(A, "*", <<"2">>)),                \* b is |a * 2|
      BindingText(B, OpText(A, "*", <<".", "5">>)),           \* b is |a * .5|
      BindingText(B, SortText(ArrayText(<<A, <<"1">> >>))),   \* b is |sort(array(a,1))|
      BindingText(B, SortText(ArrayText(<<A, A>>))),          \* b is |sort(array(a,a))|
      BindingText(B, SortText(<<"1">>)),                      \* b is |sort(1)|
      BindingText(B, ArrayText(<< <<"1">>, ArrayText(<<A, <<"2">> >>), A >>)),
                                                              \* b is array(1,array(a,2),a)
      BindingText(B, ArrayText(<< OpText(A, "+", <<"1">>), A >>)),
                                                              \* b is array(|a + 1|,a)
      BindingText(B, OpText(<<"3">>, "*", <<"4">>)),          \* b is |3 * 4|
      BindingText(B, OpText(<<"2">>, "-", <<"0", "5">>)) }    \* b is |2 - 05|

\* last lines that break the grammar or the token table, each in its own way
BadLines ==
    { BindingText(B, <<>>),                                   \* b is
      B \o SP \o <<"1">>,                                     \* b 1
      B,                                                      \* b
      LitIs \o B \o SP \o LitIs \o SP \o <<"1">>,             \* isb is 1
      BindingText(B, <<"$">>),                                \* b is $
      BindingText(B, <<")">>),                                \* b is )
      BindingText(B, LitArray \o <<"1", ",", ")">>),          \* b is array(1,)
      BindingText(B, LitArray \o A),                          \* b is array(a
      BindingText(B, LitArray),                               \* b is array(
      BindingText(B, LitArray \o <<"1", ",">>),               \* b is array(1,
      BindingText(B, LitArray \o <<"1", "|">>),               \* b is array(1|
      BindingText(B, <<"|">>),                                \* b is |
      BindingText(B, <<"|", "a">>),                           \* b is |a
      BindingText(B, <<"|", "a", ",", "|">>),                 \* b is |a,|
      BindingText(B, <<"|">> \o LitSort \o <<"a", ")">>),     \* b is |sort(a)
      BindingText(B, <<"|">> \o LitSort \o <<"a", "|">>),     \* b is |sort(a|
      BindingText(B, <<"|", "a", "+", "|">>),                 \* b is |a+|
      BindingText(B, <<"|", "a", "+", "1", "+", "a", "|">>),  \* b is |a+1+a|
      BindingText(B, <<"|", "|", "a", "|", "|">>),            \* b is ||a||
      BindingText(B, <<"|", "a", "+", "|", "a", "|", "|">>),  \* b is |a+|a||
      BindingText(B, <<"|">> \o LitSort \o <<"|", "a", "|", ")", "|">>),
                                                              \* b is |sort(|a|)|
      BindingText(B, <<"|">> \o LitArray \o <<"|", "a", "|", ")", "|">>),
                                                              \* b is |array(|a|)|
      BindingText(B, <<"|">> \o LitArray \o <<"a", "|">>),    \* b is |array(a|
      BindingText(B, A) \o SP \o <<"#", "|">> \o SP \o <<"$">>,
                                                              \* b is a #| $
      <<"#", "|", NL>> \o BindingText(B, A) \o <<NL, "$">> }  \* #| / b is a / $

RECURSIVE JoinNL(_)
\* lines, each ended by a newline but the last
JoinNL(ls) ==
    IF ls = <<>> THEN <<>>
    ELSE IF Len(ls) = 1 THEN ls[1]
    ELSE ls[1] \o <<NL>> \o JoinNL(Tail(ls))

\* the sequences of at most n elements of S
RECURSIVE SeqsUpTo(_, _)
SeqsUpTo(S, n) ==
    IF n = 0 THEN {<<>>}
    ELSE LET R == SeqsUpTo(S, n - 1)
         IN  R \cup {Append(r, x) : r \in {q \in R : Len(q) = n - 1}, x \in S}

\* at most MaxBindings core lines, or at most MaxPrefix core lines and a
\* last line
Docs ==
    {JoinNL(ls) : ls \in SeqsUpTo(CoreLines, MaxBindings)} \cup
    {JoinNL(Append(ls, last)) :
        ls \in SeqsUpTo(CoreLines, MaxPrefix), last \in LastLines \cup BadLines}

\* the pieces of the texts given to the lexer alone
LexChunks ==
    { <<"|">>, <<"#">>, <<NL>>, SP, LitIs, <<"a">>, <<"1">>, <<".">>, <<"$">>,
      LitArray }

LexTexts == {Cat(cs) : cs \in SeqsUpTo(LexChunks, MaxChunks)}

---------------------------------------------------------------------------
(* The state after construction *)

InitRest ==
    /\ scan = LexInit.scan
    /\ line = LexInit.line
    /\ tokens = LexInit.tokens
    /\ lexst = LexInit.lexst
    /\ pos = 0
    /\ constants = <<>>
    /\ output = <<>>
    /\ heap = <<>>
    /\ stack = <<>>
    /\ ret = NoVal
    /\ err = NoErr
    /\ pc = "tokenize"
    /\ stdout = <<>>
    /\ stderr = <<>>
    /\ status = -1

Init == text \in Docs /\ InitRest

\* the bindings of a that the last line of a document can refer to
DefLines ==
    { BindingText(A, <<"1">>),                                \* a is 1
      BindingText(A, ArrayText(<< <<"2">>, <<"1">> >>)),      \* a is array(2,1)
      BindingText(A, B) }                                     \* a is b

\* at most MaxPrefix bindings of a and a last line of any kind
LiveDocs ==
    {JoinNL(Append(ls, last)) :
        ls \in SeqsUpTo(DefLines, MaxPrefix),
        last \in CoreLines \cup LastLines \cup BadLines}

InitLive == text \in LiveDocs /\ InitRest

InitLex == text \in LexTexts /\ InitRest

---------------------------------------------------------------------------
(* Lexer.tokenize, one match at a time *)

LS == LexState(scan, line, tokens, lexst, err)

LexApply(ls) ==
    /\ scan' = ls.scan
    /\ line' = ls.line
    /\ tokens' = ls.tokens
    /\ lexst' = ls.lexst
    /\ err' = ls.err
    /\ UNCHANGED <<text, parsevars, mainvars>>

Scanning == pc = "tokenize" /\ lexst = "scanning"

\* lines 54-59: whitespace or a comment
LexSkip ==
    /\ Scanning /\ scan < Len(text)
    /\ MatchAt(text, scan).kind \in {"WHITESPACE", "COMMENT"}
    /\ LexApply(LexStep(text, LS))

\* lines 60-61
LexMismatch ==
    /\ Scanning /\ scan < Len(text)
    /\ MatchAt(text, scan).kind = "MISMATCH"
    /\ LexApply(LexStep(text, LS))

\* lines 63-75
LexEmit ==
    /\ Scanning /\ scan < Len(text)
    /\ MatchAt(text, scan).kind \notin {"WHITESPACE", "COMMENT", "MISMATCH"}
    /\ LexApply(LexStep(text, LS))

\* line 77
LexReturn ==
    /\ Scanning /\ scan >= Len(text)
    /\ LexApply(LexStep(text, LS))

NextLex == LexSkip \/ LexMismatch \/ LexEmit \/ LexReturn

SpecLex == InitLex /\ [][NextLex]_vars

---------------------------------------------------------------------------
(* main *)

\* lines 254-256: the whole of tokenize(), then Parser(tokens)
MainTokenize ==
    /\ Scanning
    /\ \E ls \in {LexRun(text, LS)} :
           /\ scan' = ls.scan
           /\ line' = ls.line
           /\ tokens' = ls.tokens
           /\ lexst' = ls.lexst
           /\ err' = ls.err
           /\ IF ls.lexst = "raised"
              THEN pc' = "except" /\ stack' = <<>>
              ELSE pc' = "parse" /\ stack' = <<Frame("parse", "loop", NoTok, NoVal)>>
    /\ pos' = 0
    /\ constants' = <<>>
    /\ output' = <<>>
    /\ UNCHANGED <<text, heap, ret, stdout, stderr, status>>

\* the parser's state after a step; parse() returned when the stack is empty
ParseApply(new) ==
    /\ pos' = new.pos
    /\ constants' = new.constants
    /\ output' = new.output
    /\ heap' = new.heap
    /\ stack' = new.stack
    /\ ret' = new.ret
    /\ err' = new.err
    /\ pc' = IF Failed(new) THEN "except"
             ELSE IF new.stack = <<>> THEN "print"
             ELSE "parse"
    /\ UNCHANGED <<text, lexvars, stdout, stderr, status>>

At(fn, fpc) ==
    /\ pc = "parse"
    /\ stack # <<>>
    /\ Top(P).fn = fn
    /\ Top(P).fpc = fpc

ParseLoop ==
    At("parse", "loop") /\ \E new \in {parse_loop(P)} : ParseApply(new)
ParseBind ==
    At("parse", "bind") /\ \E new \in {parse_bind(P)} : ParseApply(new)
ParseValue ==
    At("parse_value", "start") /\ \E new \in {parse_value(P)} : ParseApply(new)
ParseArrayStart ==
    /\ At("parse_array", "start")
    /\ \E new \in {parse_array_start(P)} : ParseApply(new)
ParseArrayElem ==
    /\ At("parse_array", "elem")
    /\ \E new \in {parse_array_elem(P)} : ParseApply(new)
ParseExprStart ==
    /\ At("parse_constant_expr", "start")
    /\ \E new \in {parse_constant_expr_start(P)} : ParseApply(new)
ParseExprLeft ==
    /\ At("parse_constant_expr", "left")
    /\ \E new \in {parse_constant_expr_left(P)} : ParseApply(new)
ParseExprRight ==
    /\ At("parse_constant_expr", "right")
    /\ \E new \in {parse_constant_expr_right(P)} : ParseApply(new)
ParseSortStart ==
    /\ At("parse_sort_function", "start")
    /\ \E new \in {parse_sort_function_start(P)} : ParseApply(new)
ParseSortArg ==
    /\ At("parse_sort_function", "arg")
    /\ \E new \in {parse_sort_function_arg(P)} : ParseApply(new)

\* lines 258-259
MainPrint ==
    /\ pc = "print"
    /\ stdout' = Append(stdout, dict_to_yaml(output, heap) \o <<NL>>)
    /\ status' = 0
    /\ pc' = "done"
    /\ UNCHANGED <<text, lexvars, parsevars, err, stderr>>

\* MainExcept that also prints what was parsed before the failure
MainExcept_partial ==
    /\ pc = "except"
    /\ stdout' = Append(stdout, dict_to_yaml(output, heap) \o <<NL>>)
    /\ stderr' = Append(stderr, err)
    /\ status' = 1
    /\ pc' = "exit"
    /\ UNCHANGED <<text, lexvars, parsevars, err>>

\* lines 260-262
MainExcept ==
    /\ pc = "except"
    /\ stderr' = Append(stderr, err)
    /\ status' = 1
    /\ pc' = "exit"
    /\ UNCHANGED <<text, lexvars, parsevars, err, stdout>>

Next ==
    \/ MainTokenize
    \/ ParseLoop
    \/ ParseBind
    \/ ParseValue
    \/ ParseArrayStart
    \/ ParseArrayElem
    \/ ParseExprStart
    \/ ParseExprLeft
    \/ ParseExprRight
    \/ ParseSortStart
    \/ ParseSortArg
    \/ MainPrint
    \/ MainExcept

Spec == Init /\ [][Next]_vars

\* main is one thread of control: a step that can be taken is taken
LiveSpec == InitLive /\ [][Next]_vars /\ WF_vars(Next)

---------------------------------------------------------------------------
(* Properties *)

\* the character at offset i of the text lies in a comment: a '#' precedes
\* it, or is it, with no newline in between
InComment(t, i) ==
    \E j \in 0..i : t[j + 1] = "#" /\ \A k \in j..i : t[k + 1] # NL

\* the offsets below n of the bars of the text that lie outside comments
BarOffsets(t, n) == {i \in 0..(n - 1) : t[i + 1] = "|" /\ ~InComment(t, i)}

\* the tokens that are bars, in the order emitted
BarTokens == SelectSeq(tokens, LAMBDA tk : tk.value = <<"|">>)

\* C1: at every point of the scan, the bars scanned so far outside comments
\* are the bar tokens emitted so far, the k-th of them is PIPE_OPEN when k is
\* odd and PIPE_CLOSE when k is even, and the PIPE_OPEN tokens emitted are as
\* many as the PIPE_CLOSE tokens or one more.
C1_BarParity ==
    /\ Len(BarTokens) = Cardinality(BarOffsets(text, scan))
    /\ \A k \in 1..Len(BarTokens) :
          BarTokens[k].type = IF k % 2 = 1 THEN "PIPE_OPEN" ELSE "PIPE_CLOSE"
    /\ \A i \in 1..Len(tokens) :
          tokens[i].type \in {"PIPE_OPEN", "PIPE_CLOSE"} => tokens[i].value = <<"|">>
    /\ CountType(tokens, "PIPE_OPEN") - CountType(tokens, "PIPE_CLOSE") \in {0, 1}

\* three bars emitted with a name among them
C1_Witness ==
    /\ lexst = "returned"
    /\ Len(BarTokens) = 3
    /\ Len(tokens) = 4
    /\ tokens[2].type = "NAME"

\* the content of a value: a list by its elements, whatever object holds them
RECURSIVE Deep(_, _)
Deep(x, h) ==
    [t |-> x.t, v |-> IF IsList(x) THEN 0 ELSE x.v, e |-> x.e,
     items |-> IF IsList(x)
               THEN [i \in 1..Len(h[x.v]) |-> Deep(h[x.v][i], h)]
               ELSE <<>>]

\* the index in the token sequence of the name of the binding being parsed
HeadIndex == CHOOSE i \in 1..Len(tokens) : tokens[i] = stack[1].tok

\* a binding of name n lies before the binding being parsed: its tokens
\* NAME IS, then a value that parse_value got through
DeclaredBefore(n) ==
    \E i \in 1..(HeadIndex - 1) :
        /\ tokens[i].type = "NAME" /\ tokens[i].value = n
        /\ tokens[i + 1].type = "IS"

\* parse_value is about to evaluate a NAME
NameRef ==
    /\ At("parse_value", "start")
    /\ HasTok(P)
    /\ current_token(P).type = "NAME"

\* C2: an entry of the constants table, once written, is never changed (nor
\* the content of the list it holds); the binding that completes writes its
\* value to the output mapping, and to the constants table when no binding
\* of the name completed before it; a NAME in a value position whose name
\* has a constants entry evaluates to that entry, the value of the first
\* declaration.
C2_FirstDeclarationWins ==
    [][ /\ \A i \in 1..Len(constants) :
              /\ i <= Len(constants')
              /\ constants'[i] = constants[i]
              /\ Deep(constants'[i].val, heap') = Deep(constants[i].val, heap)
        /\ At("parse", "bind") =>
              LET n == Top(P).tok.value
              IN  /\ Has(output', n) /\ Get(output', n) = ret
                  /\ ~DeclaredBefore(n) =>
                        /\ ~Has(constants, n)
                        /\ Has(constants', n) /\ Get(constants', n) = ret
                  /\ DeclaredBefore(n) => Has(constants, n)
        /\ ~At("parse", "bind") => output' = output
        /\ (NameRef /\ Has(constants, current_token(P).value)) =>
              /\ err' = NoErr
              /\ ret' = Get(constants, current_token(P).value) ]_vars

\* a is 1, a is array(2,1), b is a: b holds 1 and the output's a the array
C2_Witness ==
    /\ pc = "done"
    /\ Has(output, A) /\ Has(output, B) /\ Has(constants, A)
    /\ Get(constants, A) = IntV(1)
    /\ Deep(Get(output, A), heap).items = <<Deep(IntV(2), heap), Deep(IntV(1), heap)>>
    /\ Get(output, B) = IntV(1)

\* C3: a binary expression whose closing bar is there and whose left or
\* right operand is a list fails with TypeError.
C3_ListOperandTypeError ==
    [][ ( /\ At("parse_constant_expr", "right")
          /\ IsList(Top(P).val) \/ IsList(ret)
          /\ HasTok(P) /\ current_token(P).type = "PIPE_CLOSE" )
        => (err'.type = "TypeError" /\ stack' = <<>>) ]_vars

\* the entries of both dictionaries, each with the name it is under
Entries == {constants[i] : i \in 1..Len(constants)} \cup
           {output[i] : i \in 1..Len(output)}

\* C4: no list object is held under two names, in the output mapping or in
\* the constants table.
C4_NoSharedList ==
    \A e1 \in Entries : \A e2 \in Entries :
        (e1.key # e2.key /\ IsList(e1.val) /\ IsList(e2.val)) => e1.val.v # e2.val.v

\* C5: once tokenize or parse has failed nothing is on standard output and
\* main goes to its exit with status 1; what is printed is printed once,
\* after parse returned with every token consumed, and is the whole mapping.
C5_NoPartialOutput ==
    /\ err # NoErr =>
          /\ stdout = <<>>
          /\ pc \in {"except", "exit"}
          /\ pc = "except" => ENABLED MainExcept
          /\ pc = "exit" => status = 1
    /\ lexst = "raised" => err # NoErr
    /\ stdout # <<>> =>
          /\ pc = "done" /\ status = 0
          /\ err = NoErr /\ lexst = "returned"
          /\ stack = <<>> /\ pos = Len(tokens)
          /\ stdout = << dict_to_yaml(output, heap) \o <<NL>> >>

\* a sort of a number after a binding completed: an entry was there to print
C5_Witness ==
    /\ pc = "exit" /\ status = 1
    /\ err.type = "TypeError"
    /\ Len(output) = 1
    /\ stdout = <<>>

\* the offset in the text of column col of line ln (both counted from 1)
RECURSIVE LineStart(_, _)
LineStart(t, ln) ==
    IF ln <= 1 THEN 0
    ELSE LET s == LineStart(t, ln - 1)
             RECURSIVE Eol(_)
             Eol(q) == IF t[q + 1] = NL THEN q ELSE Eol(q + 1)
         IN  Eol(s) + 1

TextAt(t, ln, col, n) ==
    LET o == LineStart(t, ln) + col - 1 IN SubSeq(t, o + 1, o + n)

\* C6: a NAME in a value position evaluates without error when a binding of
\* its name lies before the binding being parsed; otherwise the parse ends
\* there with the NameError that holds the name and the line and column at
\* which the name stands in the text, and nothing is returned.
C6_UndefinedName ==
    [][ NameRef =>
          LET tk == current_token(P)
          IN  IF DeclaredBefore(tk.value)
              THEN err' = NoErr /\ ret' # NoVal /\ pos' = pos + 1
              ELSE /\ err' = Err("NameError", "undefined", "", "", tk.value,
                                 tk.line, tk.col)
                   /\ TextAt(text, err'.line, err'.col, Len(tk.value)) = tk.value
                   /\ tokens[pos + 1] = tk
                   /\ stack' = <<>> /\ pc' = "except" ]_vars

\* a is 1, then a is b on line 2: b is declared nowhere
C6_Witness ==
    /\ pc = "exit"
    /\ err = Err("NameError", "undefined", "", "", B, 2, 6)
    /\ Len(output) = 1

\* C7: every error raised holds a line and a column.
C7_ErrorsCarryPosition ==
    err # NoErr => (err.line >= 1 /\ err.col >= 1)

AllNums(s) == \A i \in 1..Len(s) : IsNum(s[i])

Ascending(s) == \A i \in 1..Len(s) : \A j \in i..Len(s) : ~NumLt(s[j], s[i])

Count(s, x) == Cardinality({i \in 1..Len(s) : s[i] = x})

Permutation(s1, s2) ==
    /\ Len(s1) = Len(s2)
    /\ \A i \in 1..Len(s1) : Count(s1, s1[i]) = Count(s2, s1[i])

\* C8: sort applied to a list of numbers returns a new list, the ascending
\* permutation of the argument, and leaves every list that existed and both
\* dictionaries as they were; the binding that follows puts that value under
\* its name and changes no other entry of the output mapping.
C8_SortNonDestructive ==
    [][ /\ ( /\ At("parse_sort_function", "arg")
             /\ IsList(ret) /\ AllNums(heap[ret.v])
             /\ err' = NoErr )
           => /\ IsList(ret') /\ ret'.v = Len(heap) + 1
              /\ Ascending(heap'[ret'.v])
              /\ Permutation(heap'[ret'.v], heap[ret.v])
              /\ \A i \in 1..Len(heap) : heap'[i] = heap[i]
              /\ constants' = constants /\ output' = output
        /\ At("parse", "bind")
           => /\ Get(output', Top(P).tok.value) = ret
              /\ heap' = heap
              /\ \A i \in 1..Len(constants) : constants'[i] = constants[i]
              /\ \A i \in 1..Len(output) :
                    output[i].key # Top(P).tok.value => output'[i] = output[i] ]_vars

\* a is array(2,1), b is |sort(a)|
C8_Witness ==
    /\ pc = "done"
    /\ Has(output, A) /\ Has(output, B) /\ Has(constants, A)
    /\ IsList(Get(output, A)) /\ IsList(Get(output, B))
    /\ heap[Get(output, A).v] = <<IntV(2), IntV(1)>>
    /\ heap[Get(constants, A).v] = <<IntV(2), IntV(1)>>
    /\ heap[Get(output, B).v] = <<IntV(1), IntV(2)>>

\* C9: when the argument of sort is a number and the closing marker of the
\* call follows, the parse ends with the TypeError of sort, the closing
\* marker consumed and nothing after it: the closing bar is not looked at.
C9_SortOfNumber ==
    [][ ( /\ At("parse_sort_function", "arg")
          /\ IsNum(ret)
          /\ HasTok(P) /\ current_token(P).type = "PAREN_CLOSE" )
        => /\ err' = Err("TypeError", "sort_expects_list", "list", ret.t, <<>>, 0, 0)
           /\ pos' = pos + 1
           /\ stack' = <<>> /\ pc' = "except" ]_vars

\* a is 1, b is |sort(a) with no closing bar
C9_Witness ==
    /\ pc = "exit"
    /\ err.type = "TypeError" /\ err.msg = "sort_expects_list"
    /\ pos = Len(tokens)
    /\ tokens[pos].type = "PAREN_CLOSE"

\* C10: the binding that completes changes, in the output mapping, the
\* entry of its name only: a new name is appended, the value of a name that
\* is there is replaced where it stands; every other entry keeps its place
\* and its value, and no other step changes an entry or what it holds.
C10_BindingFrame ==
    [][ IF At("parse", "bind")
        THEN LET n == Top(P).tok.value
             IN  /\ heap' = heap
                 /\ IF Has(output, n)
                    THEN /\ Len(output') = Len(output)
                         /\ \A i \in 1..Len(output) :
                               /\ output'[i].key = output[i].key
                               /\ output[i].key # n => output'[i] = output[i]
                               /\ output[i].key = n => output'[i].val = ret
                    ELSE output' = Append(output, [key |-> n, val |-> ret])
        ELSE /\ output' = output
             /\ \A i \in 1..Len(output) :
                   Deep(output'[i].val, heap') = Deep(output[i].val, heap) ]_vars

\* a is 1, b is a, a is array(2,1): a stays first, b keeps 1
C10_Witness ==
    /\ pc = "done"
    /\ Len(output) = 2
    /\ output[1].key = A /\ IsList(output[1].val)
    /\ output[2] = [key |-> B, val |-> IntV(1)]

\* the offsets at which an identifier starts outside a comment: a letter or
\* underscore that follows no letter, digit or underscore
IdentStarts(t) ==
    {i \in 0..(Len(t) - 1) :
        /\ t[i + 1] \in Letters
        /\ i > 0 => t[i] \notin Letters \cup Digits
        /\ ~InComment(t, i)}

\* the identifier that starts at offset i
IdentAt(t, i) == SubSeq(t, i + 1, MatchName(t, i))

\* the identifier at offset i is the head of the lexeme array( or sort(
OpensCall(t, i) ==
    /\ IdentAt(t, i) \in {SubSeq(LitArray, 1, 5), SubSeq(LitSort, 1, 4)}
    /\ MatchName(t, i) < Len(t) /\ t[MatchName(t, i) + 1] = "("

\* C11: when tokenize has returned, every identifier of the text other than
\* the keyword is (and other than the head of array( or sort() is one NAME
\* token, whose value is the whole identifier, at the identifier's line and
\* column; identifiers that begin with the letters is are among them.
C11_IdentifierIsOneName ==
    lexst = "returned" =>
        \A i \in IdentStarts(text) :
            (IdentAt(text, i) # LitIs /\ ~OpensCall(text, i)) =>
                \E k \in 1..Len(tokens) :
                    tokens[k] = Token("NAME", IdentAt(text, i),
                                      1 + CountNL(SubSeq(text, 1, i)),
                                      ColumnOf(text, i))

---------------------------------------------------------------------------
(* The grammar of values over tokens.  Each operator gives the index of    *)
(* the token after the phrase that starts at token i, or 0 when no such    *)
(* phrase starts there.                                                    *)

Operators == {"PLUS", "MINUS", "MULTIPLY"}

RECURSIVE PlainEnd(_, _)
RECURSIVE PlainElemsEnd(_, _)
\* a value with no bar in it: a number, a name, or an array of such values
PlainEnd(toks, i) ==
    IF TypeAt(toks, i) \in {"NUMBER", "NAME"} THEN i + 1
    ELSE IF TypeAt(toks, i) = "ARRAY_OPEN"
    THEN IF TypeAt(toks, i + 1) = "PAREN_CLOSE" THEN i + 2
         ELSE PlainElemsEnd(toks, i + 1)
    ELSE 0

\* value {COMMA value} PAREN_CLOSE
PlainElemsEnd(toks, i) ==
    LET e == PlainEnd(toks, i)
    IN  IF e = 0 THEN 0
        ELSE IF TypeAt(toks, e) = "COMMA" THEN PlainElemsEnd(toks, e + 1)
        ELSE IF TypeAt(toks, e) = "PAREN_CLOSE" THEN e + 1
        ELSE 0

\* the three bodies of a bar-expression that opens at token i
BareEnd(toks, i) ==
    LET e == PlainEnd(toks, i + 1)
    IN  IF e # 0 /\ TypeAt(toks, e) = "PIPE_CLOSE" THEN e + 1 ELSE 0

BinaryEnd(toks, i) ==
    LET e1 == PlainEnd(toks, i + 1)
        e2 == IF e1 # 0 /\ TypeAt(toks, e1) \in Operators
              THEN PlainEnd(toks, e1 + 1) ELSE 0
    IN  IF e2 # 0 /\ TypeAt(toks, e2) = "PIPE_CLOSE" THEN e2 + 1 ELSE 0

SortEnd(toks, i) ==
    LET e == IF TypeAt(toks, i + 1) = "SORT" THEN PlainEnd(toks, i + 2) ELSE 0
    IN  IF e # 0 /\ TypeAt(toks, e) = "PAREN_CLOSE"
             /\ TypeAt(toks, e + 1) = "PIPE_CLOSE"
        THEN e + 2 ELSE 0

\* the last PIPE_OPEN among the first n tokens (0 when there is none)
LastOpen(toks, n) ==
    LET S == {i \in 1..n : toks[i].type = "PIPE_OPEN"}
    IN  IF S = {} THEN 0 ELSE CHOOSE i \in S : \A j \in S : j <= i

\* a bar-expression production is at work
InBar ==
    /\ pc = "parse" /\ stack # <<>>
    /\ Top(P).fn \in {"parse_constant_expr", "parse_sort_function"}

\* C12: when the right operand of a binary expression has been parsed and
\* the next token is not PIPE_CLOSE (a further operator, say), the parse
\* ends there with the SyntaxError that expected PIPE_CLOSE; and whenever a
\* bar-expression production returns a value, the tokens from its PIPE_OPEN
\* to the PIPE_CLOSE it consumed last are exactly one of: a bare value, a
\* value, one operator and a value, or sort( value ).
C12_SingleOperator ==
    [][ /\ ( /\ At("parse_constant_expr", "right")
             /\ TypeAt(tokens, pos + 1) # "PIPE_CLOSE" )
           => /\ err'.type = "SyntaxError" /\ err'.msg = "expected"
              /\ err'.expected = "PIPE_CLOSE"
              /\ err'.found = TypeAt(tokens, pos + 1)
              /\ pos' = pos /\ stack' = <<>> /\ pc' = "except"
        /\ (InBar /\ err' = NoErr /\ Len(stack') < Len(stack))
           => LET o == LastOpen(tokens, pos')
              IN  /\ o > 0
                  /\ tokens[pos'].type = "PIPE_CLOSE"
                  /\ pos' + 1 \in {BareEnd(tokens, o), BinaryEnd(tokens, o),
                                   SortEnd(tokens, o)} ]_vars

\* b is |a+1+a| after a is 1: the second operator is where the parse ends
C12_Witness ==
    /\ pc = "exit"
    /\ err.type = "SyntaxError" /\ err.expected = "PIPE_CLOSE" /\ err.found = "PLUS"
    /\ Len(output) = 1
    /\ tokens[pos].type = "NUMBER" /\ tokens[pos - 1].type = "PLUS"

RECURSIVE EvalPlain(_, _)
RECURSIVE EvalElems(_, _)
\* the content of the value with no bar in it that starts at token i: a
\* number by its literal, a name by its constants entry, an array by the
\* contents of its elements in the order of the tokens
EvalPlain(toks, i) ==
    IF toks[i].type = "NUMBER" THEN Deep(NumberValue(toks[i].value), heap)
    ELSE IF toks[i].type = "NAME" THEN Deep(Get(constants, toks[i].value), heap)
    ELSE [t |-> "list", v |-> 0, e |-> 0, items |-> EvalElems(toks, i + 1)]

\* the contents of the elements from token i up to the closing marker
EvalElems(toks, i) ==
    IF TypeAt(toks, i) = "PAREN_CLOSE" THEN <<>>
    ELSE <<EvalPlain(toks, i)>> \o
         (IF TypeAt(toks, PlainEnd(toks, i)) = "COMMA"
          THEN EvalElems(toks, PlainEnd(toks, i) + 1)
          ELSE <<>>)

\* parse_array is at work, at its start or after an element
InArray == pc = "parse" /\ stack # <<>> /\ Top(P).fn = "parse_array"

\* C13: parse_array starts from a new empty list, appends to it the value
\* of each element as that element has been parsed and changes no other
\* list; the list it returns for an array literal with no bar in it holds,
\* in the order of the source, the values of the literal's elements, as
\* many as there are (none for array()), nested arrays included.
C13_ArrayOrder ==
    [][ /\ (At("parse_array", "start") /\ err' = NoErr)
           => /\ Len(heap') = Len(heap) + 1
              /\ heap'[Len(heap')] = <<>>
              /\ \A i \in 1..Len(heap) : heap'[i] = heap[i]
        /\ At("parse_array", "elem")
           => /\ Len(heap') = Len(heap)
              /\ heap'[Top(P).val.v] = Append(heap[Top(P).val.v], ret)
              /\ \A i \in 1..Len(heap) :
                    i # Top(P).val.v => heap'[i] = heap[i]
        /\ (InArray /\ err' = NoErr /\ Len(stack') < Len(stack))
           => /\ IsList(ret')
              /\ tokens[pos'].type = "PAREN_CLOSE"
              /\ \A o \in 1..pos' :
                    (tokens[o].type = "ARRAY_OPEN" /\ PlainEnd(tokens, o) = pos' + 1)
                    => Deep(ret', heap') = EvalPlain(tokens, o) ]_vars

\* a is 1, b is array(1,array(a,2),a): b holds [1, [1, 2], 1]
C13_Witness ==
    /\ pc = "done"
    /\ Has(output, B) /\ IsList(Get(output, B))
    /\ LET b == heap[Get(output, B).v]
       IN  /\ Len(b) = 3
           /\ b[1] = IntV(1) /\ b[3] = IntV(1)
           /\ IsList(b[2]) /\ heap[b[2].v] = <<IntV(1), IntV(2)>>

\* parse_value has been called for an element of an array
ElemValue ==
    /\ At("parse_value", "start")
    /\ Len(stack) >= 2 /\ stack[Len(stack) - 1].fn = "parse_array"

\* C14: an array literal that is malformed ends the parse with a
\* SyntaxError and nothing is returned.  No closing marker is ever consumed
\* right after a COMMA: the value expected after the COMMA is missing and
\* the error names PAREN_CLOSE as what was found, at its line and column.
\* When the tokens end where an element or the closing marker is due, the
\* error names EOF as what was found.  After an element, a token that is
\* neither COMMA nor the closing marker is named as found where
\* PAREN_CLOSE was expected.
C14_MalformedArray ==
    [][ /\ \A i \in 2..pos' :
              ~(tokens[i].type = "PAREN_CLOSE" /\ tokens[i - 1].type = "COMMA")
        /\ ( /\ ElemValue
             /\ TypeAt(tokens, pos) = "COMMA"
             /\ TypeAt(tokens, pos + 1) = "PAREN_CLOSE" )
           => /\ err' = Err("SyntaxError", "bad_value", "", "PAREN_CLOSE", <<>>,
                            tokens[pos + 1].line, tokens[pos + 1].col)
              /\ stack' = <<>> /\ pc' = "except" /\ output' = output
        /\ ((ElemValue \/ At("parse_array", "elem")) /\ ~HasTok(P))
           => /\ err'.type = "SyntaxError" /\ err'.found = "EOF"
              /\ stack' = <<>> /\ pc' = "except" /\ output' = output
        /\ ( /\ At("parse_array", "elem")
             /\ TypeAt(tokens, pos + 1) \notin {"COMMA", "PAREN_CLOSE"} )
           => /\ err'.type = "SyntaxError" /\ err'.expected = "PAREN_CLOSE"
              /\ err'.found = TypeAt(tokens, pos + 1)
              /\ stack' = <<>> /\ pc' = "except" /\ output' = output ]_vars

\* b is array(1,) : the COMMA is the last token consumed
C14_Witness ==
    /\ pc = "exit" /\ status = 1 /\ stdout = <<>>
    /\ err.type = "SyntaxError" /\ err.found = "PAREN_CLOSE"
    /\ pos >= 1 /\ tokens[pos].type = "COMMA"
    /\ pos + 1 = Len(tokens)

---------------------------------------------------------------------------
(* Positions in the text, counted from the characters *)

\* the line of offset i: one more than the newlines before it
LineOf(t, i) == 1 + Cardinality({j \in 1..i : t[j] = NL})

\* the column of offset i: its distance, counted from 1, from the character
\* after the last newline before it, or from the start of the text
ColOf(t, i) ==
    LET S == {j \in 1..i : t[j] = NL}
    IN  IF S = {} THEN i + 1
        ELSE i - (CHOOSE j \in S : \A k \in S : k <= j) + 1

\* some pattern of the token table other than MISMATCH can start with the
\* character at offset i: a digit, a dot before a digit, a letter or
\* underscore, one of ) , | + - * #, or white space
RecognizedAt(t, i) ==
    \/ t[i + 1] \in Digits \cup Letters \cup Spaces
    \/ t[i + 1] \in {")", ",", "|", "+", "-", "*", "#"}
    \/ t[i + 1] = "." /\ i + 1 < Len(t) /\ t[i + 2] \in Digits

\* offset i lies within the lexeme of one of the tokens
CoveredBy(toks, t, i) ==
    \E k \in 1..Len(toks) :
        LET o == LineStart(t, toks[k].line) + toks[k].col - 1
        IN  o <= i /\ i < o + Len(toks[k].value)

\* C15: an iteration of tokenize raises exactly when the character at the
\* scan position can start none of the recognized patterns; the error then
\* holds that character, its line and its column (both counted from 1),
\* the character is outside a comment, and tokenize does nothing more: it
\* returns no tokens.  Every character passed before is in a comment, can
\* start a pattern, or is the ( or the . inside the lexeme of a token, so
\* the character named is the first that is not recognized; tokenize
\* returns when the scan reaches the end with no such character met.
C15_LexErrorExact ==
    [][ /\ lexst = "scanning"
        /\ scan < Len(text) =>
              /\ lexst' = "raised" <=> ~RecognizedAt(text, scan)
              /\ lexst' = "raised" =>
                    /\ err' = Err("SyntaxError", "unknown_char", "", "",
                                  <<text[scan + 1]>>,
                                  LineOf(text, scan), ColOf(text, scan))
                    /\ ~InComment(text, scan)
                    /\ tokens' = tokens /\ scan' = scan
              /\ lexst' # "raised" =>
                    /\ err' = NoErr /\ lexst' = "scanning" /\ scan' > scan
        /\ scan >= Len(text) =>
              /\ lexst' = "returned" /\ err' = NoErr /\ tokens' = tokens
        /\ \A i \in 0..(scan' - 1) :
              \/ InComment(text, i)
              \/ RecognizedAt(text, i)
              \/ text[i + 1] \in {"(", "."} /\ CoveredBy(tokens', text, i) ]_vars

\* a $ in a comment on line 1 is passed over, the $ that starts line 2 is
\* the one reported
C15_Witness ==
    /\ lexst = "raised"
    /\ Len(text) = 4 /\ text[1] = "#" /\ text[2] = "$" /\ text[3] = NL
    /\ err = Err("SyntaxError", "unknown_char", "", "", <<"$">>, 2, 1)

---------------------------------------------------------------------------

\* C16: with both operands integers and the closing bar in place, a binary
\* expression returns the integer that is the sum, the difference or the
\* product of the operands, negative when it is, and changes no list; a
\* bare expression returns its operand, the same value, and changes
\* nothing; a number literal with no dot is the integer its digits spell.
C16_IntegerArithmetic ==
    [][ /\ ( /\ At("parse_constant_expr", "right")
             /\ Top(P).val.t = "int" /\ ret.t = "int"
             /\ TypeAt(tokens, pos + 1) = "PIPE_CLOSE" )
           => LET l  == Top(P).val.v
                  r  == ret.v
                  op == Top(P).tok.type
              IN  /\ err' = NoErr /\ pos' = pos + 1 /\ heap' = heap
                  /\ ret'.t = "int"
                  /\ op = "PLUS"     => ret'.v = l + r
                  /\ op = "MINUS"    => ret'.v = l - r
                  /\ op = "MULTIPLY" => ret'.v = l * r
                  /\ op \in Operators
        /\ ( /\ At("parse_constant_expr", "left")
             /\ TypeAt(tokens, pos + 1) = "PIPE_CLOSE" )
           => /\ err' = NoErr /\ pos' = pos + 1
              /\ ret' = ret /\ heap' = heap
        /\ ( /\ At("parse_value", "start")
             /\ TypeAt(tokens, pos + 1) = "NUMBER"
             /\ \A i \in 1..Len(tokens[pos + 1].value) :
                   tokens[pos + 1].value[i] \in Digits )
           => LET d == tokens[pos + 1].value
              IN  /\ ret'.t = "int"
                  /\ Len(d) = 1 => ret'.v = DigitVal(d[1])
                  /\ Len(d) = 2 => ret'.v = 10 * DigitVal(d[1]) + DigitVal(d[2]) ]_vars

\* a is 1, b is |2 - 05|: b holds -3 and is printed so
C16_Witness ==
    /\ pc = "done"
    /\ Has(output, A) /\ Get(output, A) = IntV(1)
    /\ Has(output, B) /\ Get(output, B) = IntV(-3)
    /\ stdout = << <<"a", ":", " ", "1", NL, "b", ":", " ", "-", "3", NL>> >>

\* C17: a token emitted holds the text from the scan position to the next
\* one, the line that is one more than the newlines before its start, and
\* the column that is its distance, counted from 1, from the last newline
\* before it (from the start of the text when there is none); tokens once
\* emitted stay as they are; white space and comments are passed without a
\* token, and the line counter is always one more than the newlines passed.
C17_TokenPosition ==
    [][ /\ line' = LineOf(text, scan')
        /\ \A k \in 1..Len(tokens) :
              k <= Len(tokens') /\ tokens'[k] = tokens[k]
        /\ Len(tokens') \in {Len(tokens), Len(tokens) + 1}
        /\ Len(tokens') = Len(tokens) + 1 =>
              LET tk == tokens'[Len(tokens')]
              IN  /\ scan' > scan
                  /\ tk.value = SubSeq(text, scan + 1, scan')
                  /\ tk.line = LineOf(text, scan)
                  /\ tk.col = ColOf(text, scan)
                  /\ tk.value[1] \notin Spaces \cup {"#"}
                  /\ \A i \in 1..Len(tk.value) : tk.value[i] # NL
        /\ (scan < Len(text) /\ text[scan + 1] \in Spaces \cup {"#"}) =>
              /\ tokens' = tokens
              /\ scan' > scan
              /\ line' = line + Cardinality({j \in (scan + 1)..scan' :
                                                text[j] = NL}) ]_vars

\* a comment, a newline and a space, then the name a: line 2, column 2
C17_Witness ==
    /\ lexst = "returned"
    /\ text = <<"#", NL, " ", "a">>
    /\ tokens = <<Token("NAME", <<"a">>, 2, 2)>>
    /\ line = 2

\* the frames of the bar-expression productions
BarFrames(st) ==
    {i \in 1..Len(st) : st[i].fn \in {"parse_constant_expr", "parse_sort_function"}}

\* those of them that have consumed their PIPE_OPEN
OpenBars(st) ==
    {i \in BarFrames(st) :
        st[i].fn = "parse_sort_function" \/ st[i].fpc \in {"left", "right"}}

Bars == {"PIPE_OPEN", "PIPE_CLOSE"}

\* C18: at most one bar-expression production is on the call stack; while
\* one has consumed its PIPE_OPEN and not returned, no PIPE_OPEN is
\* consumed and the next token, when a bar, is a PIPE_CLOSE; a bar that
\* stands where a value is due inside it (an operand, an element of an
\* array, the argument of sort) ends the parse with the SyntaxError of
\* parse_value at that bar, and a bar after an element of an array inside
\* it with the SyntaxError that expected the closing marker.
C18_NoNestedBars ==
    [][ /\ Cardinality(BarFrames(stack)) <= 1
        /\ Cardinality(BarFrames(stack')) <= 1
        /\ (pc = "parse" /\ OpenBars(stack) # {}) =>
              /\ \A i \in (pos + 1)..pos' : tokens[i].type # "PIPE_OPEN"
              /\ TypeAt(tokens, pos + 1) # "PIPE_OPEN"
              /\ (At("parse_value", "start") /\ TypeAt(tokens, pos + 1) \in Bars)
                 => /\ err' = Err("SyntaxError", "bad_value", "", "PIPE_CLOSE",
                                  <<>>, tokens[pos + 1].line, tokens[pos + 1].col)
                    /\ pos' = pos /\ stack' = <<>> /\ pc' = "except"
              /\ (At("parse_array", "elem") /\ TypeAt(tokens, pos + 1) \in Bars)
                 => /\ err' = Err("SyntaxError", "expected", "PAREN_CLOSE",
                                  "PIPE_CLOSE", <<>>,
                                  tokens[pos + 1].line, tokens[pos + 1].col)
                    /\ pos' = pos /\ stack' = <<>> /\ pc' = "except" ]_vars

\* b is |array(|a|)| : the second bar stands where an element is due
C18_Witness ==
    /\ pc = "exit"
    /\ err.type = "SyntaxError" /\ err.msg = "bad_value"
    /\ err.found = "PIPE_CLOSE"
    /\ pos = 4
    /\ tokens[3].type = "PIPE_OPEN" /\ tokens[4].type = "ARRAY_OPEN"
    /\ TextAt(text, err.line, err.col, 1) = <<"|">>

\* what is left to do: the tokens not consumed, and within one token the
\* steps that consume nothing (the dispatch of parse_value to a production,
\* the entry of a production, the binding after a value)
Rank ==
    3 * (Len(tokens) - pos) +
    (IF stack = <<>> THEN 0
     ELSE IF Top(P).fn = "parse_value" THEN 2
     ELSE IF Top(P).fpc \in {"start", "bind"} THEN 1
     ELSE 0)

\* C19: the cursor never goes back nor past the last token, and a step of
\* the parser moves it by the tokens it consumed; every step of the parser
\* raises, returns from parse, or lessens what is left to do, and every
\* step that stands for a loop iteration or the body of a production
\* consumes a token or raises; parse returns only with every token
\* consumed; and the run of main comes to its end.
C19_ParseTerminates ==
    /\ [][ /\ pos' >= pos /\ pos' <= Len(tokens') /\ pos' - pos <= 2
           /\ pc = "parse" =>
                 /\ tokens' = tokens
                 /\ err' # NoErr \/ pc' = "print" \/ Rank' < Rank
                 /\ Rank >= 0
                 /\ (~At("parse_value", "start") /\ ~At("parse", "bind"))
                    => (err' # NoErr \/ pc' = "print" \/ pos' > pos)
                 /\ (At("parse_value", "start") /\ err' = NoErr /\ pos' = pos)
                    => /\ Top(P').fpc = "start"
                       /\ Top(P').fn \in {"parse_array", "parse_constant_expr"}
                       /\ TypeAt(tokens, pos + 1) \in {"ARRAY_OPEN", "PIPE_OPEN"}
                 /\ pc' = "print" => (pos = Len(tokens) /\ pos' = pos)
           /\ pc # "parse" => pos' = pos ]_vars
    /\ <>(pc \in {"done", "exit"})

\* two bindings with lists parsed and printed: every token consumed
C19_Witness ==
    /\ pc = "done"
    /\ Len(tokens) >= 9 /\ pos = Len(tokens)
    /\ Len(heap) >= 2

\* C20: the constants table and the output mapping hold the same keys, in
\* the same order, at every point of the run; so where parse_value looks up
\* a NAME that the constants table does not hold, the output mapping does
\* not hold it either, and no reference is resolved by the lookup in the
\* output mapping.
C20_SameKeys ==
    /\ Keys(constants) = Keys(output)
    /\ Len(constants) = Len(output)
    /\ \A i \in 1..Len(constants) : constants[i].key = output[i].key
    /\ NameRef =>
          LET n == current_token(P).value
          IN  /\ Has(output, n) => Has(constants, n)
              /\ LookupName(constants, output, n) # NoVal
                    => LookupName(constants, output, n) = Get(constants, n)

\* a look-up of a name that was bound twice: its two entries differ
C20_Witness ==
    /\ NameRef
    /\ Has(constants, current_token(P).value)
    /\ Get(output, current_token(P).value) # Get(constants, current_token(P).value)

====
